---- MODULE Spec2Model ----
(***************************************************************************)
(* Model of crates/pathfinder/src/core.rs: the StarknetBlockNumber order   *)
(* and offset arithmetic, the conversion adapters and EntryPoint::hashed.  *)
(*                                                                         *)
(* A u64 is kept at its full width of 64 bits as four 16-bit limbs, least  *)
(* significant first, so that values next to u64::MAX are ordinary values  *)
(* of the model.  Rust's `+` and `-` on u64 abort the process ("attempt to *)
(* add/subtract with overflow") when the build has overflow checks on and  *)
(* wrap modulo 2^64 when it has them off; the build is a variable of the   *)
(* model, chosen in Init.                                                  *)
(***************************************************************************)
EXTENDS Naturals, Sequences, FiniteSets

VARIABLES
    overflow_checks, \* the build: TRUE aborts on overflow, FALSE wraps
    start,           \* the height a session of height arithmetic starts from
    chain,           \* the height obtained by chaining + and -
    var,             \* the `let mut` height updated with += and -=
    sumAdv,          \* sum of the offsets advanced by so far (unbounded)
    sumRec,          \* sum of the offsets receded by so far (unbounded)
    failed,          \* some step so far left the range 0..2^64-1
    steps,           \* number of operations applied in the session
    call,            \* the last operator call: op, self, rhs, out, inplace
    prev,            \* the operator call before it
    operands,        \* three heights handed to partial_cmp
    ord,             \* the results of the partial_cmp calls made so far
    conv,            \* the last conversion: op, input, out
    prevConv,        \* the conversion before it
    keccak,          \* Keccak-256: the digest of every input
    sel              \* the last call of EntryPoint::hashed: input, out

arithVars == <<overflow_checks, start, chain, var, sumAdv, sumRec, failed,
               steps, call, prev>>

ordVars == <<operands, ord>>
convVars == <<conv, prevConv>>
selVars == <<keccak, sel>>

vars == <<arithVars, ordVars, convVars, selVars>>

(***************************************************************************)
(* Bounds of the model.                                                    *)
(***************************************************************************)
NearK == 1
MaxSteps == 3
MaxInputLen == 2

(***************************************************************************)
(* u64: 64 bits as limbs of 16 bits, least significant limb first.         *)
(***************************************************************************)
BITS == 64
Base == 2^16
NLimbs == BITS \div 16

Low(k) == [i \in 1..NLimbs |-> IF i = 1 THEN k ELSE 0]
High(k) == [i \in 1..NLimbs |-> IF i = 1 THEN Base - 1 - k ELSE Base - 1]
U64_MAX == High(0)

\* Unbounded naturals, for the sums a claim states mathematically: one limb
\* more than a u64, enough for MaxSteps + 1 terms below 2^64.
Widen(a) == [i \in 1..(NLimbs + 1) |-> IF i <= NLimbs THEN a[i] ELSE 0]
Narrow(w) == [i \in 1..NLimbs |-> w[i]]
InU64(w) == w[NLimbs + 1] = 0

\* Schoolbook addition of two limb sequences of equal length.
LimbAdd(a, b) ==
    LET n == Len(a)
        c[i \in 0..n] == IF i = 0 THEN 0 ELSE (a[i] + b[i] + c[i - 1]) \div Base
    IN  [digits |-> [i \in 1..n |-> (a[i] + b[i] + c[i - 1]) % Base],
         carry |-> c[n]]

\* Schoolbook subtraction of two limb sequences of equal length.
LimbSub(a, b) ==
    LET n == Len(a)
        br[i \in 0..n] == IF i = 0 THEN 0
                          ELSE IF a[i] < b[i] + br[i - 1] THEN 1 ELSE 0
    IN  [digits |-> [i \in 1..n |-> (a[i] + Base * br[i] - b[i] - br[i - 1]) % Base],
         borrow |-> br[n]]

\* Comparison of two limb sequences of equal length, from the most
\* significant limb i down.
RECURSIVE LimbCmpFrom(_, _, _)
LimbCmpFrom(a, b, i) ==
    IF i = 0 THEN "Equal"
    ELSE IF a[i] < b[i] THEN "Less"
    ELSE IF a[i] > b[i] THEN "Greater"
    ELSE LimbCmpFrom(a, b, i - 1)

LimbCmp(a, b) == LimbCmpFrom(a, b, Len(a))

WideAdd(a, b) == LimbAdd(a, b).digits
LimbLeq(a, b) == LimbCmp(a, b) \in {"Less", "Equal"}

\* The outcome of an expression: a value, or the abort of the process.
Ok(v) == [ok |-> TRUE, v |-> v]
U64Aborted == [ok |-> FALSE, v |-> Low(0)]

\* u64 `+` that stops at u64::MAX in every build (u64::saturating_add).
U64AddSaturating(a, b) ==
    LET r == LimbAdd(a, b)
    IN  IF r.carry = 1 THEN Ok(High(0)) ELSE Ok(r.digits)

\* u64 `+` and `-`: abort with overflow checks on, wrap with them off.
U64Add(a, b) ==
    LET r == LimbAdd(a, b)
    IN  IF r.carry = 1 /\ overflow_checks THEN U64Aborted ELSE Ok(r.digits)

U64Sub(a, b) ==
    LET r == LimbSub(a, b)
    IN  IF r.borrow = 1 /\ overflow_checks THEN U64Aborted ELSE Ok(r.digits)

\* Option<Ordering>
Some(x) == <<x>>
None == <<>>

\* u64::partial_cmp: always Some(ordering).
U64PartialCmp(a, b) == Some(LimbCmp(a, b))

(***************************************************************************)
(* StarknetBlockNumber                                                     *)
(***************************************************************************)
StarknetBlockNumber(x) == [f0 |-> x]

\* A constant off by one.
GENESIS_one == StarknetBlockNumber(Low(1))

GENESIS == StarknetBlockNumber(Low(0))

\* #[derive(PartialEq, Eq)]
eq(self, other) == self.f0 = other.f0

\* The operands of the comparison exchanged.
partial_cmp_reversed(self, other) == U64PartialCmp(other.f0, self.f0)

partial_cmp(self, other) == U64PartialCmp(self.f0, other.f0)

\* The comparison operators PartialOrd provides from partial_cmp.
lt(self, other) == partial_cmp(self, other) = Some("Less")
le(self, other) == partial_cmp(self, other) \in {Some("Less"), Some("Equal")}
gt(self, other) == partial_cmp(self, other) = Some("Greater")

\* The outcome of an expression of type StarknetBlockNumber.
Aborted == [ok |-> FALSE, v |-> GENESIS]
Wrap(r) == IF r.ok THEN Ok(StarknetBlockNumber(r.v)) ELSE Aborted

\* The body of Sub pasted into Add.
add_subtracting(self, rhs) == Wrap(U64Sub(self.f0, rhs))

add(self, rhs) == Wrap(U64Add(self.f0, rhs))

\* += that wraps in every build (u64::wrapping_add).
add_assign_wrapping(self, rhs) == Ok(StarknetBlockNumber(LimbAdd(self.f0, rhs).digits))

add_assign(self, rhs) == Wrap(U64Add(self.f0, rhs))

\* The operands of the subtraction exchanged.
sub_exchanged(self, rhs) == Wrap(U64Sub(rhs, self.f0))

sub(self, rhs) == Wrap(U64Sub(self.f0, rhs))

sub_assign(self, rhs) == Wrap(U64Sub(self.f0, rhs))

(***************************************************************************)
(* Inputs                                                                  *)
(***************************************************************************)
NearZero == {Low(k) : k \in 0..NearK}
NearMax == {High(k) : k \in 0..NearK}
Heights == NearZero \cup NearMax \cup {Low(5), Low(6)}
               \cup {[i \in 1..NLimbs |-> IF i <= 2 THEN Base - 1 ELSE 0]}
Offsets == NearZero \cup {Low(5), Low(6), U64_MAX}

NoCall == [op |-> "none", self |-> GENESIS, rhs |-> Low(0),
           out |-> Ok(GENESIS), inplace |-> Ok(GENESIS)]

(***************************************************************************)
(* partial_cmp calls on three heights                                      *)
(***************************************************************************)
Uncalled == [called |-> FALSE, out |-> None]
Pairs == {<<1, 1>>, <<1, 2>>, <<2, 1>>, <<2, 3>>, <<1, 3>>}

OrdIdle ==
    /\ operands = <<GENESIS, GENESIS, GENESIS>>
    /\ ord = [p \in Pairs |-> Uncalled]

OrdInit ==
    /\ operands \in [1..3 -> {StarknetBlockNumber(h) : h \in Heights}]
    /\ ord = [p \in Pairs |-> Uncalled]

(***************************************************************************)
(* Conversion adapters                                                     *)
(***************************************************************************)
EthereumBlockNumber(x) == [f0 |-> x]
StarknetBlockHash(x) == [f0 |-> x]

\* web3's U64 from a u64: the one 64-bit word of the U64.
U64_from(x) == [words |-> <<x>>]

\* The number cast to 32 bits on the way.
BlockId_from_truncating(number) ==
    [BlockId |-> "Number",
     f0 |-> [BlockNumber |-> "Number",
             f0 |-> U64_from([i \in 1..NLimbs |->
                                 IF i <= 2 THEN number.f0[i] ELSE 0])]]

BlockId_from(number) ==
    [BlockId |-> "Number",
     f0 |-> [BlockNumber |-> "Number", f0 |-> U64_from(number.f0)]]

BlockNumberOrTag_from(number) == [BlockNumberOrTag |-> "Number", f0 |-> number]

BlockHashOrTag_from(hash) == [BlockHashOrTag |-> "Hash", f0 |-> hash]

\* StarkHash: a field element as its 32 bytes, most significant first.
Bytes32(top, mid, last) ==
    [i \in 1..32 |-> IF i = 1 THEN top ELSE IF i = 32 THEN last ELSE mid]

\* The field prime 2^251 + 17 * 2^192 + 1.
FieldPrime == [i \in 1..32 |-> IF i = 1 THEN 8 ELSE IF i = 8 THEN 17
                               ELSE IF i = 32 THEN 1 ELSE 0]

StarkHashes == {Bytes32(0, 0, 0), Bytes32(0, 0, 1), Bytes32(3, 255, 255),
                [FieldPrime EXCEPT ![32] = 0]}

NoConv == [op |-> "none", input |-> GENESIS, out |-> GENESIS]

ConvIdle ==
    /\ conv = NoConv
    /\ prevConv = NoConv

(***************************************************************************)
(* EntryPoint::hashed                                                      *)
(***************************************************************************)
EntryPoint(x) == [f0 |-> x]

\* Comparison of two byte sequences of equal length read as big-endian
\* integers, from byte i on.
RECURSIVE BytesCmpFrom(_, _, _)
BytesCmpFrom(a, b, i) ==
    IF i > Len(a) THEN "Equal"
    ELSE IF a[i] < b[i] THEN "Less"
    ELSE IF a[i] > b[i] THEN "Greater"
    ELSE BytesCmpFrom(a, b, i + 1)

BytesCmp(a, b) == BytesCmpFrom(a, b, 1)

\* StarkHash::from_be_bytes: an error for bytes that are no field element.
StarkHash_from_be_bytes(bytes) ==
    IF BytesCmp(bytes, FieldPrime) = "Less"
    THEN Ok(bytes)
    ELSE [ok |-> FALSE, v |-> Bytes32(0, 0, 0)]

\* truncated_keccak: masks the six most significant bits of the digest and
\* reads the rest as a field element; .expect() aborts on an error.
truncated_keccak(plain) ==
    StarkHash_from_be_bytes([plain EXCEPT ![1] = plain[1] % 4])

\* sha3::Keccak256::digest: a fixed function from byte sequences to digests
\* of 32 bytes, about which nothing else is assumed.
Keccak256_digest(input) == keccak[input]

\* The digest read as a field element without the truncation.
hashed_untruncated(input) ==
    LET h == StarkHash_from_be_bytes(Keccak256_digest(input))
    IN  IF h.ok THEN Ok(EntryPoint(h.v))
        ELSE [ok |-> FALSE, v |-> EntryPoint(Bytes32(0, 0, 0))]

hashed(input) ==
    LET h == truncated_keccak(Keccak256_digest(input))
    IN  IF h.ok THEN Ok(EntryPoint(h.v))
        ELSE [ok |-> FALSE, v |-> EntryPoint(Bytes32(0, 0, 0))]

RECURSIVE Repeat(_, _)
Repeat(byte, n) == IF n = 0 THEN <<>> ELSE <<byte>> \o Repeat(byte, n - 1)

\* Function names: "", "a", "aa", ...
Inputs == {Repeat(97, n) : n \in 0..MaxInputLen}

Digests == {Bytes32(top, mid, mid) : top \in {3, 4, 8, 255}, mid \in {0, 255}}
               \cup {FieldPrime, [FieldPrime EXCEPT ![1] = 255]}

NoSel == [called |-> FALSE, input |-> <<>>,
          out |-> Ok(EntryPoint(Bytes32(0, 0, 0)))]

SelIdle ==
    /\ keccak = <<>>
    /\ sel = [called |-> FALSE]

ArithIdle ==
    /\ overflow_checks = TRUE
    /\ start = GENESIS
    /\ chain = Ok(GENESIS)
    /\ var = Ok(GENESIS)
    /\ sumAdv = Widen(Low(0))
    /\ sumRec = Widen(Low(0))
    /\ failed = FALSE
    /\ steps = 0
    /\ call = NoCall
    /\ prev = NoCall

(***************************************************************************)
(* A session of height arithmetic: the same offsets applied to a chained   *)
(* value with + and - and to a variable with += and -=.                    *)
(***************************************************************************)
ArithInit ==
    /\ overflow_checks \in BOOLEAN
    /\ start \in {StarknetBlockNumber(h) : h \in Heights}
    /\ chain = Ok(start)
    /\ var = Ok(start)
    /\ sumAdv = Widen(Low(0))
    /\ sumRec = Widen(Low(0))
    /\ failed = FALSE
    /\ steps = 0
    /\ call = NoCall
    /\ prev = NoCall

\* Whether start + adv - rec is a u64.
InRange(adv, rec) ==
    LET up == WideAdd(Widen(start.f0), adv)
    IN  /\ LimbLeq(rec, up)
        /\ LimbLeq(up, WideAdd(Widen(U64_MAX), rec))

Running == chain.ok /\ var.ok /\ steps < MaxSteps

Advance(o) ==
    /\ Running
    /\ chain' = add(chain.v, o)
    /\ var' = add_assign(var.v, o)
    /\ sumAdv' = WideAdd(sumAdv, Widen(o))
    /\ failed' = (failed \/ ~InRange(sumAdv', sumRec))
    /\ steps' = steps + 1
    /\ prev' = call
    /\ call' = [op |-> "add", self |-> chain.v, rhs |-> o,
                out |-> chain', inplace |-> var']
    /\ UNCHANGED <<overflow_checks, start, sumRec>>
    /\ UNCHANGED <<ordVars, convVars, selVars>>

Recede(o) ==
    /\ Running
    /\ chain' = sub(chain.v, o)
    /\ var' = sub_assign(var.v, o)
    /\ sumRec' = WideAdd(sumRec, Widen(o))
    /\ failed' = (failed \/ ~InRange(sumAdv, sumRec'))
    /\ steps' = steps + 1
    /\ prev' = call
    /\ call' = [op |-> "sub", self |-> chain.v, rhs |-> o,
                out |-> chain', inplace |-> var']
    /\ UNCHANGED <<overflow_checks, start, sumAdv>>
    /\ UNCHANGED <<ordVars, convVars, selVars>>

Init == ArithInit /\ OrdIdle /\ ConvIdle /\ SelIdle

Next ==
    \/ \E o \in Offsets : Advance(o)
    \/ \E o \in Offsets : Recede(o)

Spec == Init /\ [][Next]_vars

(***************************************************************************)
(* Specification of the order: three heights, compared pairwise.           *)
(***************************************************************************)
Compare(i, j) ==
    /\ ord' = [ord EXCEPT ![<<i, j>>] =
                  [called |-> TRUE, out |-> partial_cmp(operands[i], operands[j])]]
    /\ UNCHANGED <<operands, arithVars, convVars, selVars>>

OrderInit == ArithIdle /\ OrdInit /\ ConvIdle /\ SelIdle

OrderNext == \E p \in Pairs : Compare(p[1], p[2])

SpecOrder == OrderInit /\ [][OrderNext]_vars

(***************************************************************************)
(* Specification of the conversion adapters.                               *)
(***************************************************************************)
Converted(op, input, out) ==
    /\ prevConv' = conv
    /\ conv' = [op |-> op, input |-> input, out |-> out]
    /\ UNCHANGED <<arithVars, ordVars, selVars>>

FromEthereumBlockNumber(n) ==
    Converted("BlockId", EthereumBlockNumber(n), BlockId_from(EthereumBlockNumber(n)))

FromStarknetBlockNumber(n) ==
    Converted("BlockNumberOrTag", StarknetBlockNumber(n),
              BlockNumberOrTag_from(StarknetBlockNumber(n)))

FromStarknetBlockHash(h) ==
    Converted("BlockHashOrTag", StarknetBlockHash(h),
              BlockHashOrTag_from(StarknetBlockHash(h)))

ConvInit == ArithIdle /\ OrdIdle /\ ConvIdle /\ SelIdle

ConvNext ==
    \/ \E n \in Heights : FromEthereumBlockNumber(n)
    \/ \E n \in Heights : FromStarknetBlockNumber(n)
    \/ \E h \in StarkHashes : FromStarknetBlockHash(h)

SpecConv == ConvInit /\ [][ConvNext]_vars

(***************************************************************************)
(* Specification of selector derivation.                                   *)
(***************************************************************************)
Hashed(s) ==
    /\ sel' = [called |-> TRUE, input |-> s, out |-> hashed(s)]
    /\ UNCHANGED <<keccak, arithVars, ordVars, convVars>>

SelectorInit ==
    /\ ArithIdle /\ OrdIdle /\ ConvIdle
    /\ keccak \in [Inputs -> Digests]
    /\ sel = NoSel

SelectorNext == \E s \in Inputs : Hashed(s)

SpecSelector == SelectorInit /\ [][SelectorNext]_vars

(***************************************************************************)
(* Claims about height arithmetic                                          *)
(***************************************************************************)
\* The sum self + rhs of a call, as an unbounded natural.
MathSum(c) == WideAdd(Widen(c.self.f0), Widen(c.rhs))
Underflows(c) == ~LimbLeq(c.rhs, c.self.f0)
IsAdd(c) == c.op = "add"
IsSub(c) == c.op = "sub"

\* C1: receding a height by an offset greater than its value (Sub or
\* SubAssign) never yields a wrapped-around height: it ends in an abort;
\* for every offset <= the value it returns exactly current - offset.
C1_RecedeNeverWraps ==
    IsSub(call) =>
        IF Underflows(call)
        THEN ~call.out.ok /\ ~call.inplace.ok
        ELSE /\ call.out.ok
             /\ call.inplace = call.out
             /\ WideAdd(Widen(call.out.v.f0), Widen(call.rhs)) = Widen(call.self.f0)

\* C2 as stated: for every height b, also next to u64::MAX, and every offset
\* o <= b, advancing b by o yields a height, and receding that height by o
\* gives back b.
C2_RoundTripEveryHeight ==
    /\ (IsAdd(call) /\ LimbLeq(call.rhs, call.self.f0)) => call.out.ok
    /\ (IsAdd(prev) /\ IsSub(call) /\ call.rhs = prev.rhs
            /\ LimbLeq(prev.rhs, prev.self.f0))
        => call.out = Ok(prev.self)

\* C2 as amended: for every height b and offset o <= b, (b + o) - o == b
\* whenever b + o yields a height, which it does when b + o <= u64::MAX or
\* the build wraps; with overflow checks on and b + o > u64::MAX the
\* addition aborts.
C2_RoundTripWhenAdvanceYields ==
    /\ (IsAdd(call) /\ LimbLeq(call.rhs, call.self.f0))
        => (call.out.ok <=> (InU64(MathSum(call)) \/ ~overflow_checks))
    /\ (IsAdd(prev) /\ IsSub(call) /\ call.rhs = prev.rhs
            /\ LimbLeq(prev.rhs, prev.self.f0))
        => call.out = Ok(prev.self)

\* A round trip through a sum that fits, and one through a wrapped sum.
C2_Witness ==
    /\ IsAdd(prev) /\ IsSub(call) /\ call.rhs = prev.rhs
    /\ prev.self = StarknetBlockNumber(Low(5)) /\ prev.rhs = Low(5)
    /\ call.out = Ok(prev.self)

\* C3 as stated: for every height b, u64::MAX included, b + 1 > b.
C3_AdvanceOneGreaterEveryHeight ==
    (IsAdd(call) /\ call.rhs = Low(1))
        => call.out.ok /\ gt(call.out.v, call.self)

\* C3 as amended: for every height b below u64::MAX, b + 1 > b; at
\* b = u64::MAX the addition aborts (overflow checks on) or yields GENESIS
\* (overflow checks off), which is not greater than b.
C3_AdvanceOneGreaterBelowMax ==
    (IsAdd(call) /\ call.rhs = Low(1))
        => IF call.self.f0 # U64_MAX
           THEN call.out.ok /\ gt(call.out.v, call.self)
           ELSE IF overflow_checks
           THEN ~call.out.ok
           ELSE call.out = Ok(GENESIS) /\ ~gt(call.out.v, call.self)

C3_Witness ==
    /\ IsAdd(call) /\ call.rhs = Low(1)
    /\ call.self = StarknetBlockNumber(High(1))
    /\ call.out = Ok(StarknetBlockNumber(U64_MAX))

\* Monotonicity of advance in the offset around the call c, an advance that
\* yielded a height: every other offset o that satisfies P yields a height
\* too, on the same side of c.out as o is of c.rhs.
MonotoneAround(c, P(_)) ==
    \A o \in {x \in Offsets : P(x)} :
        LET other == add(c.self, o)
        IN  /\ other.ok
            /\ LimbLeq(c.rhs, o) => le(c.out.v, other.v)
            /\ LimbLeq(o, c.rhs) => le(other.v, c.out.v)

\* C4 as stated: advance (Add and AddAssign) returns the height whose value
\* is the mathematical sum current + offset, for every height and offset,
\* and is monotonically increasing in the offset.
C4_AdvanceExactEveryOffset ==
    IsAdd(call) =>
        /\ call.out.ok /\ call.inplace = call.out
        /\ Widen(call.out.v.f0) = MathSum(call)
        /\ LET Any(o) == TRUE IN MonotoneAround(call, Any)

\* C4 as amended: when current + offset <= u64::MAX, advance (Add and
\* AddAssign) returns the height whose value is exactly current + offset,
\* and over those offsets it is monotonically increasing in the offset;
\* when current + offset > u64::MAX it aborts (overflow checks on) or
\* returns current + offset - 2^64 (overflow checks off).
C4_AdvanceExactWhenSumFits ==
    IsAdd(call) =>
        /\ call.inplace = call.out
        /\ IF InU64(MathSum(call))
           THEN /\ call.out = Ok(StarknetBlockNumber(Narrow(MathSum(call))))
                /\ LET Fits(o) == InU64(WideAdd(Widen(call.self.f0), Widen(o)))
                   IN  MonotoneAround(call, Fits)
           ELSE IF overflow_checks
           THEN ~call.out.ok
           ELSE call.out = Ok(StarknetBlockNumber(Narrow(MathSum(call))))

C4_Witness ==
    /\ IsAdd(call)
    /\ call.self = StarknetBlockNumber(Low(1)) /\ call.rhs = Low(5)
    /\ call.out = Ok(StarknetBlockNumber(Low(6)))
    /\ call.inplace = call.out

\* C9: GENESIS is the height 0; GENESIS advanced by n is the height n, the
\* height n receded by n is GENESIS, and GENESIS <= b for every height b.
C9_GenesisIsOrigin ==
    /\ eq(GENESIS, StarknetBlockNumber(Low(0)))
    /\ (IsAdd(call) /\ call.self = GENESIS)
        => call.out = Ok(StarknetBlockNumber(call.rhs))
    /\ (IsSub(call) /\ call.self.f0 = call.rhs) => call.out = Ok(GENESIS)
    /\ chain.ok => le(GENESIS, chain.v)
    /\ le(GENESIS, start)

\* Scenario B: GENESIS + 5, then - 5.
C9_Witness ==
    /\ IsAdd(prev) /\ prev.self = GENESIS /\ prev.rhs = Low(5)
    /\ prev.out = Ok(StarknetBlockNumber(Low(5)))
    /\ IsSub(call) /\ call.rhs = Low(5) /\ call.out = Ok(GENESIS)

\* C10: over any sequence of advance/recede offsets the variable updated
\* with += / -= holds after every step the height obtained by chaining
\* + / -, the two forms abort at the same step, and as long as no step
\* overflowed or underflowed the height is start + advances - recedes.
C10_InPlaceAgreesWithChained ==
    /\ var = chain
    /\ call.inplace = call.out
    /\ ~failed =>
        /\ chain.ok
        /\ WideAdd(Widen(chain.v.f0), sumRec) = WideAdd(Widen(start.f0), sumAdv)
    /\ (failed /\ overflow_checks) => ~chain.ok /\ ~var.ok

\* Three steps, none failing: 5 + 6 - 1 + 0.
C10_Witness ==
    /\ steps >= 2 /\ ~failed
    /\ sumAdv # Widen(Low(0)) /\ sumRec # Widen(Low(0))
    /\ var.ok /\ var = chain

(***************************************************************************)
(* Claims about the order                                                  *)
(***************************************************************************)
\* a < b as integers: a - b borrows.
ValueLess(a, b) == LimbSub(a, b).borrow = 1
Leq(out) == out \in {Some("Less"), Some("Equal")}

\* C5: the order on heights is the total order of the wrapped integers:
\* partial_cmp never returns None, b1 < b2 iff b1's value < b2's value,
\* Equal iff b1 == b2, and the order is reflexive, antisymmetric and
\* transitive.
C5_TotalOrderOfValues ==
    /\ \A p \in Pairs :
        ord[p].called =>
            LET a == operands[p[1]]
                b == operands[p[2]]
                out == ord[p].out
            IN  /\ out # None
                /\ (out = Some("Less")) <=> ValueLess(a.f0, b.f0)
                /\ (out = Some("Greater")) <=> ValueLess(b.f0, a.f0)
                /\ (out = Some("Equal")) <=> eq(a, b)
                /\ lt(a, b) <=> ValueLess(a.f0, b.f0)
    /\ ord[<<1, 1>>].called => ord[<<1, 1>>].out = Some("Equal")
    /\ (ord[<<1, 2>>].called /\ ord[<<2, 1>>].called
            /\ Leq(ord[<<1, 2>>].out) /\ Leq(ord[<<2, 1>>].out))
        => eq(operands[1], operands[2])
    /\ (ord[<<1, 2>>].called /\ ord[<<2, 3>>].called /\ ord[<<1, 3>>].called
            /\ Leq(ord[<<1, 2>>].out) /\ Leq(ord[<<2, 3>>].out))
        => Leq(ord[<<1, 3>>].out)

\* 5 < 2^32 - 1 < u64::MAX, all three compared.
C5_Witness ==
    /\ operands[1] = StarknetBlockNumber(Low(5))
    /\ operands[3] = StarknetBlockNumber(U64_MAX)
    /\ ord[<<1, 2>>].out = Some("Less")
    /\ ord[<<2, 3>>].out = Some("Less")
    /\ ord[<<1, 3>>].out = Some("Less")
    /\ ord[<<2, 1>>].out = Some("Greater")

(***************************************************************************)
(* Claims about the conversion adapters                                    *)
(***************************************************************************)
\* C8: the three adapters always return a value: StarknetBlockNumber gives
\* the Number variant with the same height, StarknetBlockHash the Hash
\* variant with the same hash, EthereumBlockNumber
\* BlockId::Number(BlockNumber::Number(n)) with n the wrapped u64; distinct
\* inputs give distinct outputs.
C8_AdaptersLossless ==
    /\ conv.op = "BlockNumberOrTag" =>
        conv.out.BlockNumberOrTag = "Number" /\ conv.out.f0 = conv.input
    /\ conv.op = "BlockHashOrTag" =>
        conv.out.BlockHashOrTag = "Hash" /\ conv.out.f0 = conv.input
    /\ conv.op = "BlockId" =>
        /\ conv.out.BlockId = "Number"
        /\ conv.out.f0.BlockNumber = "Number"
        /\ conv.out.f0.f0.words = <<conv.input.f0>>
    /\ (conv.op = prevConv.op /\ conv.input # prevConv.input)
        => conv.out # prevConv.out

\* Two Ethereum block numbers that differ only above bit 32.
C8_Witness ==
    /\ conv.op = "BlockId" /\ prevConv.op = "BlockId"
    /\ conv.input = EthereumBlockNumber(U64_MAX)
    /\ prevConv.input.f0[1] = Base - 1 /\ prevConv.input.f0[NLimbs] = 0
    /\ conv.out # prevConv.out

(***************************************************************************)
(* Claims about selector derivation                                        *)
(***************************************************************************)
\* C6: for every byte sequence, the empty one included, hashed returns a
\* value, and the field element it wraps is strictly less than the field
\* prime: it is the digest with its most significant bits masked.
C6_SelectorBelowPrime ==
    sel.called =>
        /\ sel.out.ok
        /\ BytesCmp(sel.out.v.f0, FieldPrime) = "Less"
        /\ \A i \in 2..32 : sel.out.v.f0[i] = keccak[sel.input][i]
        /\ sel.out.v.f0[1] = keccak[sel.input][1] % 4

\* The empty input with a digest above the field prime.
C6_Witness ==
    /\ sel.called /\ sel.input = <<>>
    /\ BytesCmp(keccak[<<>>], FieldPrime) = "Greater"
    /\ sel.out.ok

====
